---- MODULE Spec2Model ----
(***************************************************************************)
(* alloc-counter (src/src/lib.rs): a counting allocator with per-thread    *)
(* MODE and COUNTERS cells, the Guard that installs and restores a mode,   *)
(* count_alloc, guard_fn (allow_alloc / deny_alloc / forbid_alloc), and    *)
(* the futures AsyncGuard (count_alloc_future) and guard_future.           *)
(*                                                                         *)
(* A thread's activity is a call stack of frames.  The code that runs      *)
(* inside a closure or inside one poll of a future is arbitrary user code: *)
(* it may call the allocator, call a scope function, poll or drop a        *)
(* future, return, or panic.  Panics unwind one frame per step.            *)
(***************************************************************************)
EXTENDS Integers, Sequences, FiniteSets

(* ------------------------------ bounds -------------------------------- *)
\* allocator calls a thread makes, scope functions and polls it starts,
\* futures constructed, threads
MaxCalls == 2
MaxScopes == 3
NFut == 1
NThreads == 2

Threads == 1..NThreads
Futs == 1..NFut

(* --------------------------- program values --------------------------- *)
AllocMode == {"Ignore", "Count", "CountAll"}

Zero == <<0, 0, 0>>

ModeInit == "Count"

VARIABLES
    MODE,       \* thread -> AllocMode ("unborn" before the thread starts)
    COUNTERS,   \* thread -> (allocations, reallocations, deallocations)
    live,       \* the set of started threads
    stack,      \* thread -> sequence of frames, innermost last
    panicking,  \* thread -> "no" | "violation" | "work": a panic unwinding
    fut,        \* future id -> record of one AsyncGuard / guard_future
    ncalls,     \* thread -> number of allocator calls made (history)
    nscopes,    \* thread -> number of frames it has pushed (history)
    cap,        \* the bounds in force: calls, scopes, futs
    ev          \* the last step taken, with what its caller observed

vars == <<MODE, COUNTERS, live, stack, panicking, fut, ncalls, nscopes, cap, ev>>

(* ------------------------- thread-local cells ------------------------- *)
TlsSetShared(cell, t, v) == [u \in DOMAIN cell |-> v]

\* thread_local!: a write through MODE.with / COUNTERS.with on thread t
TlsSet(cell, t, v) == [cell EXCEPT ![t] = v]

(* ------------------------- counting allocator ------------------------- *)
Add(c, d) == <<c[1] + d[1], c[2] + d[2], c[3] + d[3]>>

Unit(i) == [k \in 1..3 |-> IF k = i THEN 1 ELSE 0]

BumpDown(c, i) == [c EXCEPT ![i] = @ - 1]

BumpNext(c, i) == [c EXCEPT ![(i % 3) + 1] = @ + 1]

\* let mut c = x.get(); c.i += 1; x.set(c)
Bump(c, i) == [c EXCEPT ![i] = @ + 1]

Counted(m) == m # "Ignore"

AllocCallOnSuccess(c, m, i, res) ==
    [counters |-> IF Counted(m) /\ res # "null" THEN Bump(c, i) ELSE c,
     result   |-> res]

\* One GlobalAlloc method of AllocCounter: count under the mode, then
\* delegate to the backing allocator and return what it returned.
AllocCall(c, m, i, res) ==
    [counters |-> IF Counted(m) THEN Bump(c, i) ELSE c,
     result   |-> res]

(* -------------------------------- Guard ------------------------------- *)
GuardNewKeepsRequested(cur, mode) ==
    [installed |-> IF cur # "CountAll" THEN mode ELSE cur,
     saved     |-> IF cur # "CountAll" THEN mode ELSE "CountAll"]

GuardNewNotSticky(cur, mode) == [installed |-> mode, saved |-> cur]

\* Guard::new: x.replace(mode) unless the mode is CountAll
GuardNew(cur, mode) ==
    [installed |-> IF cur # "CountAll" THEN mode ELSE cur,
     saved     |-> IF cur # "CountAll" THEN cur ELSE "CountAll"]

GuardDropForgets(cur, saved) == cur

\* Guard::drop: x.set(self.0)
GuardDrop(cur, saved) == saved

(* ----------------------------- measurement ---------------------------- *)
DeltaFromZero(after, before) == after

\* count_alloc: (a2 - a1, r2 - r1, d2 - d1)
Delta(after, before) ==
    <<after[1] - before[1], after[2] - before[2], after[3] - before[3]>>

AccumulateLast(counts, d) == d

\* AsyncGuard::poll: counts.0 += a; counts.1 += r; counts.2 += d
Accumulate(counts, d) == Add(counts, d)

JudgeAlways(mode, d) == d # Zero

\* guard_fn / guard_future: mode != Ignore && delta != (0, 0, 0)
Judge(mode, d) == mode # "Ignore" /\ d # Zero

MessageSwapped(d) ==
    [allocations |-> d[2], reallocations |-> d[1], deallocations |-> d[3]]

\* panic!("allocations: {}, reallocations: {}, deallocations: {}", ...)
Message(d) ==
    [allocations |-> d[1], reallocations |-> d[2], deallocations |-> d[3]]

AwaitAlways(poll) == TRUE

\* guard_future: count_alloc_future(f).await goes on to the judgment with
\* (counts, x) only when the poll of the AsyncGuard returned Poll::Ready
Await(poll) == poll = "Ready"

(* ------------------------------- records ------------------------------ *)
NoFut ==
    [st |-> "absent", fn |-> "none", mode |-> "none", guard |-> "none",
     counts |-> Zero, calls |-> Zero, own |-> Zero, hot |-> Zero,
     sticky |-> FALSE, seen |-> "unpolled", home |-> 0, young |-> {}]

\* a future that completed, panicked or was dropped
Gone == [NoFut EXCEPT !.st = "done"]

NoEv ==
    [type |-> "init", thread |-> 0, fn |-> "none", mode |-> "none",
     fut |-> 0, outcome |-> "none", m0 |-> "none", delta |-> Zero,
     calls |-> Zero, own |-> Zero, hot |-> Zero, sticky |-> FALSE,
     seen |-> "unpolled", op |-> 0, backing |-> "none", result |-> "none",
     lifo |-> TRUE, msg |-> Message(Zero)]

Frame(fn, mode, f, saved, before, m0, young) ==
    [fn |-> fn, mode |-> mode, fut |-> f, saved |-> saved, before |-> before,
     m0 |-> m0, calls |-> Zero, own |-> Zero, hot |-> Zero, young |-> young]

Top(t) == stack[t][Len(stack[t])]

Pop(t) == SubSeq(stack[t], 1, Len(stack[t]) - 1)

Running(t) == t \in live /\ panicking[t] = "no"

\* the futures first polled on thread t and not yet completed or dropped
Started(t) == {g \in Futs : fut[g].home = t}

\* those of them that hold a Guard: guard_future suspended or being polled
LiveGuards(t) == {g \in Started(t) : fut[g].guard # "none"}

\* history: no Guard alive on thread t was created after the Guard of the
\* guard_fn frame fr
YoungestFrame(t, fr) == LiveGuards(t) \subseteq fr.young

\* history: the Guard of future f was created on thread t and no Guard
\* alive on thread t was created after it
YoungestFut(t, f) ==
    /\ fut[f].home = t
    /\ \A k \in 1..Len(stack[t]) :
          stack[t][k].fn = "guard_fn" => f \notin stack[t][k].young
    /\ \A g \in LiveGuards(t) \ {f} : f \notin fut[g].young

\* a frame that is an allow scope: allow_alloc or a step of its async form
IsAllow(fr) == fr.fn \in {"guard_fn", "guard_future"} /\ fr.mode = "Ignore"

\* the history of frame k after an allocator call of kind i made under mode m
Noted(s, k, i, m) ==
    [s[k] EXCEPT
        !.calls = Add(@, Unit(i)),
        !.hot = IF Counted(m) THEN Add(@, Unit(i)) ELSE @,
        !.own = IF \E j \in (k + 1)..Len(s) : IsAllow(s[j])
                THEN @ ELSE Add(@, Unit(i))]

\* history: a counted allocator call was made while future u was suspended
Passed(u, m) ==
    IF u.st = "idle" /\ u.seen = "polled" /\ Counted(m)
    THEN [u EXCEPT !.seen = "passed"] ELSE u

(* -------------------------------- Init -------------------------------- *)
Start(c) ==
    /\ cap = c
    /\ nscopes = [t \in Threads |-> 0]
    /\ MODE = [t \in Threads |-> IF t = 1 THEN ModeInit ELSE "unborn"]
    /\ COUNTERS = [t \in Threads |-> Zero]
    /\ live = {1}
    /\ stack = [t \in Threads |-> <<>>]
    /\ panicking = [t \in Threads |-> "no"]
    /\ fut = [f \in Futs |-> NoFut]
    /\ ncalls = [t \in Threads |-> 0]
    /\ ev = NoEv

Init == Start([calls |-> MaxCalls, scopes |-> MaxScopes, futs |-> NFut])

(* ------------------------------ allocator ----------------------------- *)
\* the backing allocator's possible answers to each kind of call
Backing(i) == IF i = 3 THEN {"none"} ELSE {"ptr", "null"}

Call(t, i) ==
    /\ Running(t)
    /\ ncalls[t] < cap.calls
    /\ \E res \in Backing(i) :
         LET r == AllocCall(COUNTERS[t], MODE[t], i, res) IN
         /\ COUNTERS' = TlsSet(COUNTERS, t, r.counters)
         /\ ev' = [NoEv EXCEPT !.type = "call", !.thread = t, !.op = i,
                               !.m0 = MODE[t], !.backing = res,
                               !.result = r.result]
    /\ stack' = [stack EXCEPT ![t] =
                    [k \in 1..Len(@) |-> Noted(@, k, i, MODE[t])]]
    /\ fut' = [f \in Futs |-> Passed(fut[f], MODE[t])]
    /\ ncalls' = [ncalls EXCEPT ![t] = @ + 1]
    /\ UNCHANGED <<MODE, live, panicking, nscopes, cap>>

alloc(t) == Call(t, 1)

realloc(t) == Call(t, 2)

dealloc(t) == Call(t, 3)

(* ------------------------ synchronous scopes -------------------------- *)
\* count_alloc, up to the call of f
count_alloc_call(t) ==
    /\ Running(t)
    /\ nscopes[t] < cap.scopes
    /\ nscopes' = [nscopes EXCEPT ![t] = @ + 1]
    /\ stack' = [stack EXCEPT ![t] =
          Append(@, Frame("count_alloc", "none", 0, "none", COUNTERS[t], MODE[t], {}))]
    /\ ev' = [NoEv EXCEPT !.type = "enter", !.thread = t]
    /\ UNCHANGED <<MODE, COUNTERS, live, panicking, fut, ncalls, cap>>

\* count_alloc, from the return of f
count_alloc_return(t) ==
    /\ Running(t)
    /\ stack[t] # <<>>
    /\ Top(t).fn = "count_alloc"
    /\ LET fr == Top(t) IN
       ev' = [NoEv EXCEPT !.type = "ret", !.thread = t, !.fn = "count_alloc",
                          !.outcome = "ok", !.m0 = fr.m0,
                          !.delta = Delta(COUNTERS[t], fr.before),
                          !.calls = fr.calls, !.own = fr.own, !.hot = fr.hot]
    /\ stack' = [stack EXCEPT ![t] = Pop(t)]
    /\ UNCHANGED <<MODE, COUNTERS, live, panicking, fut, ncalls, nscopes, cap>>

\* guard_fn, up to the call of f: Guard::new(mode), count_alloc's first read
guard_fn_call(t, mode) ==
    /\ Running(t)
    /\ nscopes[t] < cap.scopes
    /\ nscopes' = [nscopes EXCEPT ![t] = @ + 1]
    /\ LET g == GuardNew(MODE[t], mode) IN
       /\ MODE' = TlsSet(MODE, t, g.installed)
       /\ stack' = [stack EXCEPT ![t] =
             Append(@, Frame("guard_fn", mode, 0, g.saved, COUNTERS[t], MODE[t],
                         LiveGuards(t)))]
    /\ ev' = [NoEv EXCEPT !.type = "enter", !.thread = t]
    /\ UNCHANGED <<COUNTERS, live, panicking, fut, ncalls, cap>>

allow_alloc(t) == guard_fn_call(t, "Ignore")

deny_alloc(t) == guard_fn_call(t, "Count")

forbid_alloc(t) == guard_fn_call(t, "CountAll")

\* guard_fn, from the return of f: the judgment, then the guard is dropped
guard_fn_return(t) ==
    /\ Running(t)
    /\ stack[t] # <<>>
    /\ Top(t).fn = "guard_fn"
    /\ LET fr == Top(t)
           d == Delta(COUNTERS[t], fr.before)
           bad == Judge(fr.mode, d)
       IN
       /\ panicking' = [panicking EXCEPT ![t] = IF bad THEN "violation" ELSE "no"]
       /\ MODE' = TlsSet(MODE, t, GuardDrop(MODE[t], fr.saved))
       /\ ev' = [NoEv EXCEPT !.type = "ret", !.thread = t, !.fn = "guard_fn",
                             !.mode = fr.mode,
                             !.outcome = IF bad THEN "violation" ELSE "ok",
                             !.msg = IF bad THEN Message(d) ELSE @,
                             !.m0 = fr.m0, !.delta = d, !.calls = fr.calls,
                             !.own = fr.own, !.hot = fr.hot,
                             !.lifo = YoungestFrame(t, fr)]
    /\ stack' = [stack EXCEPT ![t] = Pop(t)]
    /\ UNCHANGED <<COUNTERS, live, fut, ncalls, nscopes, cap>>

(* ------------------------------- panics ------------------------------- *)
\* the closure or the future being run panics for its own reasons
work_panic(t) ==
    /\ Running(t)
    /\ stack[t] # <<>>
    /\ panicking' = [panicking EXCEPT ![t] = "work"]
    /\ ev' = [NoEv EXCEPT !.type = "panic", !.thread = t]
    /\ UNCHANGED <<MODE, COUNTERS, live, stack, fut, ncalls, nscopes, cap>>

\* a panic leaves one frame: its locals are dropped (Guard::drop)
unwind(t) ==
    /\ t \in live
    /\ panicking[t] # "no"
    /\ stack[t] # <<>>
    /\ LET fr == Top(t)
           held == IF fr.fn = "guard_fn" THEN fr.saved
                   ELSE IF fr.fut # 0 THEN fut[fr.fut].guard
                   ELSE "none"
       IN
       /\ MODE' = IF held # "none"
                  THEN TlsSet(MODE, t, GuardDrop(MODE[t], held))
                  ELSE MODE
       /\ fut' = IF fr.fut # 0
                 THEN [fut EXCEPT ![fr.fut] = Gone]
                 ELSE fut
       /\ ev' = [NoEv EXCEPT !.type = "unwound", !.thread = t, !.fn = fr.fn,
                             !.mode = fr.mode, !.fut = fr.fut,
                             !.outcome = panicking[t], !.m0 = fr.m0,
                             !.delta = Delta(COUNTERS[t], fr.before),
                             !.calls = fr.calls, !.own = fr.own,
                             !.hot = fr.hot,
                             !.lifo = IF fr.fn = "guard_fn"
                                      THEN YoungestFrame(t, fr)
                                      ELSE held = "none" \/ YoungestFut(t, fr.fut)]
    /\ stack' = [stack EXCEPT ![t] = Pop(t)]
    /\ UNCHANGED <<COUNTERS, live, panicking, ncalls, nscopes, cap>>

\* the panic reaches the bottom of the thread's stack and is reported there
caught(t) ==
    /\ t \in live
    /\ panicking[t] # "no"
    /\ stack[t] = <<>>
    /\ panicking' = [panicking EXCEPT ![t] = "no"]
    /\ ev' = [NoEv EXCEPT !.type = "caught", !.thread = t]
    /\ UNCHANGED <<MODE, COUNTERS, live, stack, fut, ncalls, nscopes, cap>>

(* ------------------------------- futures ------------------------------ *)
\* futures are numbered in the order in which they are constructed
Fresh(f) ==
    /\ f <= cap.futs
    /\ fut[f].st = "absent"
    /\ \A g \in 1..(f - 1) : fut[g].st # "absent"

Constructed(t, f, fn, mode) ==
    /\ Running(t)
    /\ Fresh(f)
    /\ fut' = [fut EXCEPT ![f] = [NoFut EXCEPT !.st = "idle", !.fn = fn,
                                              !.mode = mode]]
    /\ ev' = [NoEv EXCEPT !.type = "new", !.thread = t]
    /\ UNCHANGED <<MODE, COUNTERS, live, stack, panicking, ncalls, nscopes, cap>>

\* count_alloc_future(future): AsyncGuard { future, counts: default }
count_alloc_future(t, f) == Constructed(t, f, "count_alloc_future", "none")

\* guard_future(mode, f): an async fn, nothing of its body runs yet
guard_future(t, f, mode) == Constructed(t, f, "guard_future", mode)

\* One poll of the future, up to the poll of the wrapped future.  The first
\* poll of guard_future runs its body up to the await: Guard::new(mode).
\* AsyncGuard::poll then enters count_alloc, which reads COUNTERS.
poll_call(t, f) ==
    /\ Running(t)
    /\ nscopes[t] < cap.scopes
    /\ nscopes' = [nscopes EXCEPT ![t] = @ + 1]
    /\ fut[f].st = "idle"
    /\ LET first == fut[f].fn = "guard_future" /\ fut[f].guard = "none"
           g == GuardNew(MODE[t], fut[f].mode)
       IN
       /\ MODE' = IF first THEN TlsSet(MODE, t, g.installed) ELSE MODE
       /\ fut' = [fut EXCEPT ![f].st = "polling",
                             ![f].guard = IF first THEN g.saved ELSE @,
                             ![f].sticky = @ \/ MODE[t] = "CountAll",
                             ![f].seen = IF @ = "unpolled" THEN "polled" ELSE @,
                             ![f].home = IF @ = 0 THEN t ELSE @,
                             ![f].young = IF first THEN LiveGuards(t) ELSE @]
    /\ stack' = [stack EXCEPT ![t] =
          Append(@,
                 Frame(fut[f].fn, fut[f].mode, f, "none", COUNTERS[t], MODE[t],
                       {}))]
    /\ ev' = [NoEv EXCEPT !.type = "enter", !.thread = t]
    /\ UNCHANGED <<COUNTERS, live, panicking, ncalls, cap>>

\* the future's history after the step whose frame is fr
Stepped(f, fr, d) ==
    [fut[f] EXCEPT !.counts = Accumulate(@, d),
                   !.calls = Add(@, fr.calls),
                   !.own = Add(@, fr.own),
                   !.hot = Add(@, fr.hot)]

\* the wrapped future returned Poll::Pending: the step's delta is added to
\* counts and Pending is passed up; guard_future stays at its await
poll_pending(t) ==
    /\ Running(t)
    /\ stack[t] # <<>>
    /\ Top(t).fut # 0
    /\ LET fr == Top(t)
           f == fr.fut
           d == Delta(COUNTERS[t], fr.before)
           after == Stepped(f, fr, d)
           bad == /\ fr.fn = "guard_future"
                  /\ Await("Pending")
                  /\ Judge(fr.mode, after.counts)
       IN
       /\ panicking' = [panicking EXCEPT ![t] = IF bad THEN "violation" ELSE "no"]
       /\ fut' = [fut EXCEPT ![f] = [after EXCEPT !.st = "idle"]]
       /\ ev' = [NoEv EXCEPT !.type = "pending", !.thread = t, !.fn = fr.fn,
                             !.mode = fr.mode, !.fut = f, !.m0 = fr.m0,
                             !.outcome = IF bad THEN "violation" ELSE "none",
                             !.msg = IF bad THEN Message(after.counts) ELSE @,
                             !.delta = after.counts, !.calls = after.calls,
                             !.own = after.own, !.hot = after.hot, !.sticky = after.sticky, !.seen = after.seen]
    /\ stack' = [stack EXCEPT ![t] = Pop(t)]
    /\ UNCHANGED <<MODE, COUNTERS, live, ncalls, nscopes, cap>>

\* the wrapped future returned Poll::Ready: AsyncGuard returns (counts, x);
\* guard_future judges the total, and its guard is dropped
poll_ready(t) ==
    /\ Running(t)
    /\ stack[t] # <<>>
    /\ Top(t).fut # 0
    /\ LET fr == Top(t)
           f == fr.fut
           d == Delta(COUNTERS[t], fr.before)
           after == Stepped(f, fr, d)
           guarded == fr.fn = "guard_future"
           bad == guarded /\ Await("Ready") /\ Judge(fr.mode, after.counts)
       IN
       /\ MODE' = IF guarded
                  THEN TlsSet(MODE, t, GuardDrop(MODE[t], fut[f].guard))
                  ELSE MODE
       /\ panicking' = [panicking EXCEPT ![t] = IF bad THEN "violation" ELSE "no"]
       /\ fut' = [fut EXCEPT ![f] = Gone]
       /\ ev' = [NoEv EXCEPT !.type = "ready", !.thread = t, !.fn = fr.fn,
                             !.mode = fr.mode, !.fut = f, !.m0 = fr.m0,
                             !.outcome = IF bad THEN "violation" ELSE "ok",
                             !.msg = IF bad THEN Message(after.counts) ELSE @,
                             !.delta = after.counts, !.calls = after.calls,
                             !.own = after.own, !.hot = after.hot, !.sticky = after.sticky, !.seen = after.seen,
                             !.lifo = ~guarded \/ YoungestFut(t, f)]
    /\ stack' = [stack EXCEPT ![t] = Pop(t)]
    /\ UNCHANGED <<COUNTERS, live, ncalls, nscopes, cap>>

\* a future that is not being polled is dropped before it completed: its
\* fields are dropped on the dropping thread, a live Guard among them
drop_future(t, f) ==
    /\ Running(t)
    /\ fut[f].st = "idle"
    /\ MODE' = IF fut[f].guard # "none"
               THEN TlsSet(MODE, t, GuardDrop(MODE[t], fut[f].guard))
               ELSE MODE
    /\ fut' = [fut EXCEPT ![f] = Gone]
    /\ ev' = [NoEv EXCEPT !.type = "dropped", !.thread = t, !.fn = fut[f].fn,
                          !.mode = fut[f].mode, !.fut = f, !.m0 = MODE[t],
                          !.delta = fut[f].counts, !.calls = fut[f].calls,
                          !.own = fut[f].own, !.hot = fut[f].hot,
                          !.lifo = fut[f].guard = "none" \/ YoungestFut(t, f)]
    /\ UNCHANGED <<COUNTERS, live, stack, panicking, ncalls, nscopes, cap>>

(* ------------------------------- threads ------------------------------ *)
\* a new thread: its cells take the thread_local! initial values
spawn(t) ==
    /\ t \notin live
    /\ live' = live \cup {t}
    /\ MODE' = TlsSet(MODE, t, ModeInit)
    /\ COUNTERS' = TlsSet(COUNTERS, t, Zero)
    /\ ev' = [NoEv EXCEPT !.type = "spawn", !.thread = t]
    /\ UNCHANGED <<stack, panicking, fut, ncalls, nscopes, cap>>

(* ---------------------------- specifications -------------------------- *)
Step(t) ==
    \/ alloc(t)
    \/ realloc(t)
    \/ dealloc(t)
    \/ count_alloc_call(t)
    \/ count_alloc_return(t)
    \/ allow_alloc(t)
    \/ deny_alloc(t)
    \/ forbid_alloc(t)
    \/ guard_fn_return(t)
    \/ work_panic(t)
    \/ unwind(t)
    \/ caught(t)
    \/ \E f \in Futs : count_alloc_future(t, f)
    \/ \E f \in Futs, mode \in AllocMode : guard_future(t, f, mode)
    \/ \E f \in Futs : poll_call(t, f)
    \/ poll_pending(t)
    \/ poll_ready(t)
    \/ \E f \in Futs : drop_future(t, f)

Next == \E t \in Threads : Step(t)

\* one thread; closures, futures polled and dropped anywhere
Spec == Init /\ [][Next]_vars

SyncStep(t) ==
    \/ alloc(t)
    \/ realloc(t)
    \/ dealloc(t)
    \/ count_alloc_call(t)
    \/ count_alloc_return(t)
    \/ allow_alloc(t)
    \/ deny_alloc(t)
    \/ forbid_alloc(t)
    \/ guard_fn_return(t)
    \/ work_panic(t)
    \/ unwind(t)
    \/ caught(t)

InitSync ==
    Start([calls |-> MaxCalls + 1, scopes |-> MaxScopes - 1, futs |-> 0])

NextSync == \E t \in Threads : SyncStep(t)

\* one thread, closures only, one more allocator call
SpecSync == InitSync /\ [][NextSync]_vars

InitMT ==
    Start([calls |-> MaxCalls - 1, scopes |-> MaxScopes - 2, futs |-> NFut])

NextMT == Next \/ \E t \in Threads : spawn(t)

\* several threads; a future may be polled or dropped by any of them
SpecMT == InitMT /\ [][NextMT]_vars

(* ------------------------------- claims ------------------------------- *)
\* the last step was the return of guard_fn(mode, f) after f returned
Returned(mode) == ev.type = "ret" /\ ev.fn = "guard_fn" /\ ev.mode = mode

\* the last step was a poll of guard_future(mode, f) in which f completed
Completed(mode) == ev.type = "ready" /\ ev.fn = "guard_future" /\ ev.mode = mode

Failed == ev.outcome = "violation"

\* no future has been constructed: the thread ran closures only
NoFutureYet == \A f \in Futs : fut[f].st = "absent"

\* C1 as stated, on a thread that ran closures only: deny_alloc whose work
\* returned fails exactly when the work made an allocator call outside
\* every allow_alloc scope nested inside it, whatever scopes enclose it.
C1_DenyOwnCalls ==
    (Returned("Count") /\ NoFutureYet) => (Failed <=> ev.own # Zero)

\* C1 amended: deny_alloc whose work returned fails exactly when the work
\* made an allocator call while the thread's Mode was not Ignore.  On a
\* thread that ran closures only, those are the calls outside every nested
\* allow_alloc when deny_alloc was called under Ignore or Count, and all the
\* calls of the work when it was called under CountAll.
C1_DenyCountedCalls ==
    Returned("Count") =>
        /\ Failed <=> ev.hot # Zero
        /\ NoFutureYet =>
              ev.hot = IF ev.m0 = "CountAll" THEN ev.calls ELSE ev.own

\* deny_alloc inside forbid_alloc failed for a call made inside allow_alloc
C1_Witness ==
    /\ Returned("Count")
    /\ Failed
    /\ NoFutureYet
    /\ ev.m0 = "CountAll"
    /\ ev.own = Zero
    /\ ev.calls = <<0, 0, 1>>

\* C2: forbid_alloc whose work returned fails exactly when an allocator
\* call was made anywhere inside the work.
C2_ForbidAnyCall == Returned("CountAll") => (Failed <=> ev.calls # Zero)

\* C3: allow_alloc never raises an allocation violation, whatever the work
\* did and whatever Mode was in force when it was called.
C3_AllowNeverFails == Returned("Ignore") => ~Failed

\* allow_alloc called under CountAll returned although its calls were counted
C3_Witness ==
    /\ Returned("Ignore")
    /\ ev.m0 = "CountAll"
    /\ ev.delta # Zero
    /\ ev.outcome = "ok"

\* C4: when guard_fn has returned, raised its violation or been left by a
\* panic of its work, the thread's Mode is the Mode just before the call.
C4_ModeRestored ==
    (ev.type \in {"ret", "unwound"} /\ ev.fn = "guard_fn")
        => MODE[ev.thread] = ev.m0

\* a nested allow_alloc, called under a Mode other than the one it asked
\* for, was left by a panic and the Mode of its caller is back
C4_Witness ==
    /\ ev.type = "unwound"
    /\ ev.fn = "guard_fn"
    /\ ev.mode = "Ignore"
    /\ ev.m0 = "Count"
    /\ Len(stack[ev.thread]) = 2
    /\ MODE[ev.thread] = "Count"

\* C5: when a step of guard_future ends, suspended or completed, the
\* thread's Mode is the Mode it had just before that step began.
C5_StepRestoresMode ==
    (ev.type \in {"pending", "ready"} /\ ev.fn = "guard_future")
        => MODE[ev.thread] = ev.m0

\* C6: the Counters a completing AsyncGuard returns are the sum, over its
\* own steps, of the counter increases seen during each step.
C6_OwnStepsOnly == ev.type = "ready" => ev.delta = ev.hot

\* count_alloc_future completed with a non-zero total that leaves out a
\* counted call made on the thread while it was suspended
C6_Witness ==
    /\ ev.type = "ready"
    /\ ev.fn = "count_alloc_future"
    /\ ev.seen = "passed"
    /\ ev.delta # Zero
    /\ ev.delta # COUNTERS[ev.thread]

\* C7: an asynchronous forbid driven to completion fails exactly when its
\* steps made an allocator call; an asynchronous deny none of whose steps
\* began under CountAll fails exactly when its steps made an allocator call
\* outside its own nested allow scopes.
C7_AsyncVerdict ==
    /\ Completed("CountAll") => (Failed <=> ev.calls # Zero)
    /\ (Completed("Count") /\ ~ev.sticky) => (Failed <=> ev.own # Zero)

\* the last step was allocator call number i of thread t
Called(t, i) == ev.type = "call" /\ ev.thread = t /\ ev.op = i

\* what the Mode rule makes of counters c after a call of kind i under m
Expected(c, m, i) ==
    IF m \in {"Count", "CountAll"}
    THEN [k \in 1..3 |-> IF k = i THEN c[k] + 1 ELSE c[k]]
    ELSE c

\* C8: an allocator call under Count or CountAll adds 1 to its own counter
\* and changes neither the other counters nor the Mode; under Ignore it
\* changes nothing.  So count_alloc around calls that were all made under a
\* Mode other than Ignore returns the number of calls of each kind.
C8_CallsCounted ==
    /\ [][\A t \in Threads, i \in 1..3 :
            Called(t, i)' =>
                /\ MODE'[t] = MODE[t]
                /\ COUNTERS'[t] = Expected(COUNTERS[t], MODE[t], i)]_vars
    /\ []((ev.type = "ret" /\ ev.fn = "count_alloc" /\ ev.hot = ev.calls)
            => ev.delta = ev.calls)

\* count_alloc around one allocate, one reallocate and one deallocate
C8_Witness ==
    /\ ev.type = "ret"
    /\ ev.fn = "count_alloc"
    /\ ev.hot = ev.calls
    /\ ev.delta = <<1, 1, 1>>

\* C9: a call the backing allocator fails is counted as a successful one
\* is, the wrapper returns the backing allocator's answer, null included,
\* and the wrapper raises nothing.
C9_BackingOutcome ==
    [][\A t \in Threads, i \in 1..3 :
          Called(t, i)' =>
              /\ ev'.result = ev'.backing
              /\ COUNTERS'[t][i] = COUNTERS[t][i] + (IF MODE[t] = "Ignore" THEN 0 ELSE 1)
              /\ panicking'[t] = panicking[t]]_vars

\* the only call a thread made was an allocate that the backing allocator
\* failed: null came back and the call was counted
C9_Witness ==
    /\ Called(1, 1)
    /\ ev.backing = "null"
    /\ ev.result = "null"
    /\ ncalls[1] = 1
    /\ COUNTERS[1] = <<1, 0, 0>>

\* C10: a step of one thread leaves the Mode and Counters of every other
\* thread as they were, and a thread starts with Mode Count and Counters
\* (0, 0, 0).
C10_ThreadsIsolated ==
    [][/\ \A t \in Threads :
             t # ev'.thread => MODE'[t] = MODE[t] /\ COUNTERS'[t] = COUNTERS[t]
       /\ ev'.type = "spawn" =>
             MODE'[ev'.thread] = "Count" /\ COUNTERS'[ev'.thread] = Zero]_vars

\* a thread starts while another is inside forbid_alloc and has counted
C10_Witness ==
    /\ ev.type = "spawn"
    /\ ev.thread = 2
    /\ MODE = <<"CountAll", "Count">>
    /\ COUNTERS[1] # Zero
    /\ COUNTERS[2] = Zero

\* the last step was the return of count_alloc(f) after f returned
Measured == ev.type = "ret" /\ ev.fn = "count_alloc"

\* C11: count_alloc installs no Mode and judges nothing: when it returns,
\* the thread's Mode is the Mode just before the call, no allocation
\* violation is raised, and the Counters it returns are the increase of
\* COUNTERS between the start and the end of the work.
C11_CountAllocNeutral ==
    Measured =>
        /\ MODE[ev.thread] = ev.m0
        /\ ~Failed
        /\ panicking[ev.thread] = "no"
        /\ ev.delta = ev.hot

\* a frame of the stack that is the work of a forbid scope
IsForbid(fr) == fr.fn \in {"guard_fn", "guard_future"} /\ fr.mode = "CountAll"

\* C12: while the work of a forbid scope is executing, the body of
\* forbid_alloc or a step of guard_future(CountAll, f), the thread's Mode is
\* CountAll, whatever scopes were entered and left since the forbid began.
C12_ForbidKeepsCountAll ==
    \A t \in Threads :
        (Running(t) /\ \E k \in 1..Len(stack[t]) : IsForbid(stack[t][k]))
            => MODE[t] = "CountAll"

\* the last step destroyed a Guard: guard_fn returned, raised its violation
\* or was left by a panic; guard_future completed, was left by a panic
\* during a step, or was dropped after its first step
Destroyed ==
    \/ ev.type \in {"ret", "unwound"} /\ ev.fn = "guard_fn"
    \/ ev.type \in {"ready", "unwound", "dropped"} /\ ev.fn = "guard_future"

\* C13: a Guard that is destroyed is the most recently created of the Guards
\* alive on its thread, for the Guards of the synchronous scope functions
\* and for those of guard_future polled in any order.
C13_ReverseOrder == Destroyed => ev.lifo

\* C18: when a thread has no scope function running and every future first
\* polled on it has completed, failed or been dropped, its Mode is Count.
C18_NoModeLeak ==
    \A t \in live : (stack[t] = <<>> /\ Started(t) = {}) => MODE[t] = "Count"

\* the last step was a panic leaving guard_fn(mode, f) before f returned
Unwound(mode) == ev.type = "unwound" /\ ev.fn = "guard_fn" /\ ev.mode = mode

\* C14: when a panic of its work leaves a synchronous scope function, the
\* panic goes on to the caller as it came, the thread's Mode is the Mode
\* just before the scope was called, and no allocation violation is raised
\* for the scope, whatever its work counted before it failed.
C14_WorkFailurePropagates ==
    \A mode \in AllocMode :
        Unwound(mode) =>
            /\ ev.outcome # "no"
            /\ panicking[ev.thread] = ev.outcome
            /\ MODE[ev.thread] = ev.m0

\* deny_alloc called inside allow_alloc was left by a panic of its own work
\* after the work made a counted call
C14_Witness ==
    /\ Unwound("Count")
    /\ ev.outcome = "work"
    /\ panicking[ev.thread] = "work"
    /\ ev.m0 = "Ignore"
    /\ ev.hot # Zero
    /\ ev.delta # Zero

\* C15: no step decreases or resets a counter of a thread, and every delta
\* returned by count_alloc, accumulated by AsyncGuard or judged by a scope
\* function has three non-negative components.
C15_CountersMonotone ==
    /\ [][\A t \in Threads, k \in 1..3 : COUNTERS'[t][k] >= COUNTERS[t][k]]_vars
    /\ [](\A k \in 1..3 : ev.delta[k] >= 0)

\* count_alloc returned a non-zero delta smaller than the stored counters
C15_Witness ==
    /\ Measured
    /\ ev.delta = <<0, 1, 0>>
    /\ COUNTERS[ev.thread] = <<1, 1, 0>>

\* C16: a guard_future that suspends or is dropped before it completed
\* raises no allocation violation, whatever its steps accumulated; once
\* dropped it is finished and its total is gone.
C16_AbandonedNotJudged ==
    (ev.fn = "guard_future" /\ ev.type \in {"pending", "dropped"}) =>
        /\ ~Failed
        /\ panicking[ev.thread] = "no"
        /\ ev.type = "dropped" =>
              fut[ev.fut].st = "done" /\ fut[ev.fut].counts = Zero

\* an asynchronous forbid was dropped after steps that had counted calls
C16_Witness ==
    /\ ev.type = "dropped"
    /\ ev.fn = "guard_future"
    /\ ev.mode = "CountAll"
    /\ ev.delta = <<1, 0, 1>>
    /\ panicking[ev.thread] = "no"

\* C17: the allocation violation raised by guard_fn or guard_future names
\* the allocations, reallocations and deallocations of the delta it judged,
\* which are the counted calls of each kind made during the scope's work;
\* deny_alloc around one counted allocate fails with (1, 0, 0).
C17_ViolationCounts ==
    /\ (Failed /\ ev.type \in {"ret", "ready"}) =>
          /\ ev.msg = [allocations   |-> ev.delta[1],
                       reallocations |-> ev.delta[2],
                       deallocations |-> ev.delta[3]]
          /\ ev.delta = ev.hot
          /\ ev.delta # Zero
    /\ (Returned("Count") /\ ev.hot = <<1, 0, 0>>) =>
          /\ Failed
          /\ ev.msg = [allocations |-> 1, reallocations |-> 0, deallocations |-> 0]

\* deny_alloc around a single allocate failed with (1, 0, 0)
C17_Witness ==
    /\ Returned("Count")
    /\ Failed
    /\ ev.calls = <<1, 0, 0>>
    /\ ev.msg = [allocations |-> 1, reallocations |-> 0, deallocations |-> 0]

====
